---- MODULE Spec2Model ----
(***************************************************************************)
(* Model of src/utils.py: dll_file (streamed download with progress bar),  *)
(* unzip (archive extraction with progress bar) and write_image (codec     *)
(* write guarded by an extension check and a validity check).              *)
(*                                                                         *)
(* One call runs per behaviour; Init chooses the call and its inputs, the  *)
(* actions are the statements of the called function in program order.     *)
(* Paths and printed lines are sequences of one-character strings; file    *)
(* contents are sequences of bytes.                                        *)
(***************************************************************************)
EXTENDS Integers, Sequences, FiniteSets

VARIABLES
    op,              \* the function being called
    pc,              \* position inside the function; "done" | "raised" | "exited"
    dirs,            \* filesystem: set of existing directories
    files,           \* filesystem: path -> content, for every existing file
    stdout,          \* lines printed with end="\r", oldest first
    log,             \* conf.log records, oldest first
    made,            \* arguments of the os.makedirs calls, oldest first
    returned,        \* <<v>> once the call returned v, <<>> before
    exc,             \* name of the exception that left the call, "" if none
    exit_status,     \* <<s>> once sys.exit(s) was called, <<>> before
    url,             \* dll_file: what the source answers for url
    file_path,       \* dll_file: argument
    f,               \* dll_file: TRUE while the destination file is open
    total_length,    \* dll_file: local
    dl,              \* dll_file: local
    it,              \* dll_file: chunks of iter_content consumed so far
    zf,              \* unzip: zf.infolist() of the archive at zip_path
    fail_at,         \* unzip: index of the entry whose extraction fails, 0 if none
    extract_path,    \* unzip: argument
    uncompress_size, \* unzip: local
    extracted_size,  \* unzip: local
    idx,             \* unzip: index of the entry the for loop is at
    path,            \* write_image: argument
    codec_output,    \* write_image: what cv2.imwrite leaves at path
    imwrite_calls    \* write_image: number of cv2.imwrite calls

vars == <<op, pc, dirs, files, stdout, log, made, returned, exc, exit_status,
          url, file_path, f, total_length, dl, it,
          zf, fail_at, extract_path, uncompress_size, extracted_size, idx,
          path, codec_output, imwrite_calls>>

dlVars == <<url, file_path, f, total_length, dl, it>>
uzVars == <<zf, fail_at, extract_path, uncompress_size, extracted_size, idx>>
wiVars == <<path, codec_output, imwrite_calls>>

----------------------------------------------------------------------------
(* Bounds of the explored inputs *)

MaxChunks == 2      \* chunks in a response body
MaxChunkLen == 2    \* bytes in a chunk
MaxLength == 3      \* largest content-length header value
MaxEntries == 3     \* entries in an archive
MaxFileSize == 2    \* uncompressed bytes in an archive entry

Byte == {0, 1}

----------------------------------------------------------------------------
(* Program constants *)

BarWidth == 50
ClearWidth == 80
NoHeader == -1      \* response.headers.get('content-length') is None

----------------------------------------------------------------------------
(* Sequences, strings and paths *)

SeqsUpTo(S, lo, hi) == UNION {[1..n -> S] : n \in lo..hi}

RECURSIVE Concat(_)
Concat(ss) == IF ss = <<>> THEN <<>> ELSE Head(ss) \o Concat(Tail(ss))

\* c * n of Python: the empty string when n <= 0
Rep(c, n) == IF n <= 0 THEN <<>> ELSE [i \in 1..n |-> c]

\* s.rfind(c), 1-based; 0 when c does not occur
RFind(s, c) ==
    LET hits == {i \in 1..Len(s) : s[i] = c}
    IN IF hits = {} THEN 0 ELSE CHOOSE i \in hits : \A j \in hits : j <= i

RECURSIVE RStripSlash(_)
RStripSlash(s) ==
    IF s # <<>> /\ s[Len(s)] = "/" THEN RStripSlash(SubSeq(s, 1, Len(s) - 1)) ELSE s

\* os.path.dirname (posixpath)
Dirname(p) ==
    LET head == SubSeq(p, 1, RFind(p, "/"))
    IN IF head # <<>> /\ head # Rep("/", Len(head)) THEN RStripSlash(head) ELSE head

\* os.path.splitext(p)[1]
Splitext(p) ==
    LET sepIndex == RFind(p, "/")
        dotIndex == RFind(p, ".")
    IN IF dotIndex > sepIndex
          /\ \E k \in (sepIndex + 1)..(dotIndex - 1) : p[k] # "."
       THEN SubSeq(p, dotIndex, Len(p))
       ELSE <<>>

\* os.path.join(a, b) for a relative b
Join(a, b) == IF a = <<>> \/ a[Len(a)] = "/" THEN a \o b ELSE a \o <<"/">> \o b

\* the directories os.makedirs(d, exist_ok=True) leaves in existence
RECURSIVE Ancestors(_)
Ancestors(d) == IF d = <<>> \/ Dirname(d) = d THEN {d} \ {<<>>}
                ELSE {d} \cup Ancestors(Dirname(d))

Makedirs(ds, d) == ds \cup Ancestors(d)

\* fs with p holding content c
WriteFile(fs, p, c) == [q \in (DOMAIN fs) \cup {p} |-> IF q = p THEN c ELSE fs[q]]

----------------------------------------------------------------------------
(* Progress output, shared by dll_file and unzip *)

\* int(50 * n / total) for total # 0 (true division then truncation; exact
\* for the magnitudes a double represents exactly)
Done(n, total) == (BarWidth * n) \div total

\* "[{}{}]".format('=' * done, ' ' * (50 - done))
Bar(done) == <<"[">> \o Rep("=", done) \o Rep(" ", BarWidth - done) \o <<"]">>

\* " "*80
ClearLine == Rep(" ", ClearWidth)

----------------------------------------------------------------------------
(* dll_file(url, file_path) *)

EmptyFS == [q \in {} |-> <<>>]

Chunks == SeqsUpTo(Byte, 1, MaxChunkLen)
Bodies == SeqsUpTo(Chunks, 0, MaxChunks)

Unreachable == [reach |-> FALSE, status |-> 0, length |-> NoHeader, chunks |-> <<>>]

\* What requests.get(url, stream=True) can meet.  chunks is what iter_content
\* yields (the decoded body); length is the content-length header, the size of
\* the body as transferred, which differs from the decoded size under a
\* content-encoding.  A body of transferred size 0 decodes to nothing.
Sources ==
    {Unreachable} \cup
    {s \in [reach : {TRUE}, status : {200, 404},
            length : {NoHeader} \cup (0..MaxLength), chunks : Bodies] :
        s.length = 0 => s.chunks = <<>>}

Success(status) == status \in 200..299

OutDir == <<"o", "u", "t">>
DllPaths == { <<"m", ".", "b">>,
              <<"o", "u", "t", "/", "m", ".", "b">>,
              <<"o", "u", "t", "/", "s", "/", "m", ".", "b">> }

OldContent == <<1, 1, 1>>

\* the test of line 145 inverted
NeedsMakedirsInverted(dir) == dir = <<>>

\* dir != ''
NeedsMakedirs(dir) == dir # <<>>

\* the file opened in append mode: earlier content is kept
OpenAppend(fs, p) == IF p \in DOMAIN fs THEN fs ELSE WriteFile(fs, p, <<>>)

\* open(file_path, "wb"): the file exists and is empty
OpenWB(fs, p) == WriteFile(fs, p, <<>>)

\* f.write(data)
FWrite(fs, p, data) == [fs EXCEPT ![p] = @ \o data]

InitCommon ==
    /\ stdout = <<>> /\ log = <<>> /\ made = <<>>
    /\ returned = <<>> /\ exc = "" /\ exit_status = <<>>

InitDllIdle ==
    /\ url = Unreachable /\ file_path = <<>> /\ f = FALSE
    /\ total_length = NoHeader /\ dl = 0 /\ it = 0

InitUzIdle ==
    /\ zf = <<>> /\ fail_at = 0 /\ extract_path = <<>>
    /\ uncompress_size = 0 /\ extracted_size = 0 /\ idx = 0

InitWiIdle ==
    /\ path = <<>> /\ codec_output = "absent" /\ imwrite_calls = 0

InitDll ==
    /\ op = "dll_file" /\ pc = "dl_start"
    /\ InitCommon /\ InitUzIdle /\ InitWiIdle
    /\ url \in Sources
    /\ file_path \in DllPaths
    /\ dirs \in {{}, {OutDir}}
    /\ files \in {EmptyFS} \cup
                 {WriteFile(EmptyFS, file_path, OldContent) : x \in
                     {y \in {1} : Dirname(file_path) \in dirs \cup {<<>>}}}
    /\ f = FALSE /\ total_length = NoHeader /\ dl = 0 /\ it = 0

Raise(e) == /\ exc' = e /\ pc' = "raised"

\* lines 142-143
DllStart ==
    /\ pc = "dl_start"
    /\ log' = Append(log, <<"debug", "Download url">>)
    /\ IF url.reach
       THEN pc' = "dl_makedirs" /\ exc' = exc
       ELSE Raise("ConnectionError")
    /\ UNCHANGED <<op, dirs, files, stdout, made, returned, exit_status,
                   dlVars, uzVars, wiVars>>

\* lines 144-146
DllMakedirs ==
    /\ pc = "dl_makedirs"
    /\ LET dir == Dirname(file_path)
       IN IF NeedsMakedirs(dir)
          THEN dirs' = Makedirs(dirs, dir) /\ made' = Append(made, dir)
          ELSE UNCHANGED <<dirs, made>>
    /\ pc' = "dl_open"
    /\ UNCHANGED <<op, files, stdout, log, returned, exc, exit_status,
                   dlVars, uzVars, wiVars>>

\* line 148
DllOpen ==
    /\ pc = "dl_open"
    /\ IF Dirname(file_path) \in dirs \cup {<<>>}
       THEN /\ files' = OpenWB(files, file_path)
            /\ f' = TRUE
            /\ pc' = "dl_header" /\ exc' = exc
       ELSE /\ Raise("FileNotFoundError")
            /\ UNCHANGED <<files, f>>
    /\ UNCHANGED <<op, dirs, stdout, log, made, returned, exit_status,
                   url, file_path, total_length, dl, it, uzVars, wiVars>>

\* lines 150-152, 155-156
DllHeader ==
    /\ pc = "dl_header"
    /\ total_length' = url.length
    /\ IF url.length = NoHeader
       THEN pc' = "dl_content" /\ dl' = dl
       ELSE pc' = "dl_iter" /\ dl' = 0
    /\ UNCHANGED <<op, dirs, files, stdout, log, made, returned, exc, exit_status,
                   url, file_path, f, it, uzVars, wiVars>>

\* line 153: response.content is the join of the chunks of the body
DllContent ==
    /\ pc = "dl_content"
    /\ files' = FWrite(files, file_path, Concat(url.chunks))
    /\ it' = Len(url.chunks)
    /\ pc' = "dl_info"
    /\ UNCHANGED <<op, dirs, stdout, log, made, returned, exc, exit_status,
                   url, file_path, f, total_length, dl, uzVars, wiVars>>

\* lines 157-161, one iteration
DllIter ==
    /\ pc = "dl_iter"
    /\ it < Len(url.chunks)
    /\ LET data == url.chunks[it + 1]
       IN /\ it' = it + 1
          /\ dl' = dl + Len(data)
          /\ files' = FWrite(files, file_path, data)
          /\ IF total_length = 0
             THEN /\ Raise("ZeroDivisionError")
                  /\ f' = FALSE
                  /\ stdout' = stdout
             ELSE /\ stdout' = Append(stdout, Bar(Done(dl + Len(data), total_length)))
                  /\ UNCHANGED <<pc, exc, f>>
    /\ UNCHANGED <<op, dirs, log, made, returned, exit_status,
                   url, file_path, total_length, uzVars, wiVars>>

\* line 162, reached when iter_content is exhausted
DllClear ==
    /\ pc = "dl_iter"
    /\ it = Len(url.chunks)
    /\ stdout' = Append(stdout, ClearLine)
    /\ pc' = "dl_info"
    /\ UNCHANGED <<op, dirs, files, log, made, returned, exc, exit_status,
                   dlVars, uzVars, wiVars>>

\* line 163 and the end of the with block
DllInfo ==
    /\ pc = "dl_info"
    /\ log' = Append(log, <<"info", "Downloaded">>)
    /\ f' = FALSE
    /\ pc' = "dl_return"
    /\ UNCHANGED <<op, dirs, files, stdout, made, returned, exc, exit_status,
                   url, file_path, total_length, dl, it, uzVars, wiVars>>

\* line 164
DllReturn ==
    /\ pc = "dl_return"
    /\ returned' = <<file_path>>
    /\ pc' = "done"
    /\ UNCHANGED <<op, dirs, files, stdout, log, made, exc, exit_status,
                   dlVars, uzVars, wiVars>>

----------------------------------------------------------------------------
(* unzip(zip_path, extract_path) *)

Letters == <<"a", "b", "c", "d", "e", "f", "g", "h">>

\* relative path of the i-th entry: distinct per entry, every second one in
\* a subdirectory
EntryName(i) == IF i % 2 = 1 THEN <<Letters[i], ".", "t">>
                ELSE <<"b", "/", Letters[i], ".", "t">>

Datas == SeqsUpTo(Byte, 0, MaxFileSize)

\* the well-formed archives: file_size is the length of the decompressed data
Archives ==
    {[i \in 1..Len(d) |-> [filename |-> EntryName(i), file_size |-> Len(d[i]),
                           data |-> d[i]]] : d \in SeqsUpTo(Datas, 0, MaxEntries)}

ModelsDir == <<"m">>

RECURSIVE SumSizes(_)
\* sum((file.file_size for file in infolist))
SumSizes(infolist) ==
    IF infolist = <<>> THEN 0
    ELSE Head(infolist).file_size + SumSizes(Tail(infolist))

\* a loop whose body runs at least once
HasNextAtLeastOnce(i, infolist) == i = 1 \/ i <= Len(infolist)

\* the for loop has a next entry
HasNext(i, infolist) == i <= Len(infolist)

\* the error swallowed and the loop continued
OnExtractErrorContinue == "uz_add"

\* where control goes when zf.extract raises
OnExtractError == "raised"

\* the entry's size added before its progress is computed
ProgressArgAfterAdd(extracted, file) == extracted + file.file_size

\* the value the progress of an entry is computed from
ProgressArg(extracted, file) == extracted

InitUnzip ==
    /\ op = "unzip" /\ pc = "uz_start"
    /\ InitCommon /\ InitDllIdle /\ InitWiIdle
    /\ zf \in Archives
    /\ fail_at \in 0..Len(zf)
    /\ extract_path = ModelsDir
    /\ dirs \in {{}, {ModelsDir}}
    /\ files = EmptyFS
    /\ uncompress_size = 0 /\ extracted_size = 0 /\ idx = 0

\* lines 174-176
UzStart ==
    /\ pc = "uz_start"
    /\ log' = Append(log, <<"debug", "Extracting zip">>)
    /\ IF extract_path \notin dirs
       THEN dirs' = Makedirs(dirs, extract_path) /\ made' = Append(made, extract_path)
       ELSE UNCHANGED <<dirs, made>>
    /\ pc' = "uz_open"
    /\ UNCHANGED <<op, files, stdout, returned, exc, exit_status,
                   dlVars, uzVars, wiVars>>

\* lines 178-180
UzOpen ==
    /\ pc = "uz_open"
    /\ uncompress_size' = SumSizes(zf)
    /\ extracted_size' = 0
    /\ idx' = 1
    /\ pc' = "uz_loop"
    /\ UNCHANGED <<op, dirs, files, stdout, log, made, returned, exc, exit_status,
                   dlVars, zf, fail_at, extract_path, wiVars>>

\* lines 182-184
UzProgress ==
    /\ pc = "uz_loop"
    /\ HasNext(idx, zf)
    /\ IF uncompress_size = 0
       THEN Raise("ZeroDivisionError") /\ stdout' = stdout
       ELSE /\ stdout' = Append(stdout,
                   Bar(Done(ProgressArg(extracted_size, zf[idx]), uncompress_size)))
            /\ pc' = "uz_extract" /\ exc' = exc
    /\ UNCHANGED <<op, dirs, files, log, made, returned, exit_status,
                   dlVars, uzVars, wiVars>>

\* line 185; a failing extraction may leave the entry's file created and empty
UzExtract ==
    /\ pc = "uz_extract"
    /\ LET file == zf[idx]
           target == Join(extract_path, file.filename)
       IN IF fail_at = idx
          THEN /\ pc' = OnExtractError
               /\ exc' = IF OnExtractError = "raised" THEN "OSError" ELSE exc
               /\ \E partial \in BOOLEAN :
                    IF partial
                    THEN /\ dirs' = Makedirs(dirs, Dirname(target))
                         /\ files' = WriteFile(files, target, <<>>)
                    ELSE UNCHANGED <<dirs, files>>
          ELSE /\ dirs' = Makedirs(dirs, Dirname(target))
               /\ files' = WriteFile(files, target, file.data)
               /\ pc' = "uz_add" /\ exc' = exc
    /\ UNCHANGED <<op, stdout, log, made, returned, exit_status,
                   dlVars, uzVars, wiVars>>

\* line 186
UzAdd ==
    /\ pc = "uz_add"
    /\ extracted_size' = extracted_size + zf[idx].file_size
    /\ idx' = idx + 1
    /\ pc' = "uz_loop"
    /\ UNCHANGED <<op, dirs, files, stdout, log, made, returned, exc, exit_status,
                   dlVars, zf, fail_at, extract_path, uncompress_size, wiVars>>

\* line 187, reached when the entries are exhausted
UzClear ==
    /\ pc = "uz_loop"
    /\ ~HasNext(idx, zf)
    /\ stdout' = Append(stdout, ClearLine)
    /\ returned' = <<"None">>
    /\ pc' = "done"
    /\ UNCHANGED <<op, dirs, files, log, made, exc, exit_status,
                   dlVars, uzVars, wiVars>>

----------------------------------------------------------------------------
(* write_image(image, path) *)

\* lines 116-117, as a set: only membership is used
cv2_supported_extension ==
    { <<".", "b", "m", "p">>, <<".", "d", "i", "b">>, <<".", "j", "p", "e", "g">>,
      <<".", "j", "p", "g">>, <<".", "j", "p", "e">>, <<".", "j", "p", "2">>,
      <<".", "p", "n", "g">>, <<".", "p", "b", "m">>, <<".", "p", "g", "m">>,
      <<"p", "p", "m">>, <<".", "s", "r">>, <<".", "r", "a", "s">>,
      <<".", "t", "i", "f", "f">>, <<".", "t", "i", "f">> }

ValidImage == <<1, 0>>
CorruptImage == <<0, 0>>

\* Image.open(image_path); im.verify() does not raise
PILVerifies(content) == content # <<>> /\ content[1] = 1

\* lines 82-87
check_image_file_validity(fs, image_path) ==
    IF image_path \notin DOMAIN fs \/ ~PILVerifies(fs[image_path])
    THEN FALSE
    ELSE Len(fs[image_path]) # 0

\* the extensions exercised: every entry of the list with its dot, the entry
\* written without one, an extension outside the list, and none
Extensions ==
    cv2_supported_extension
      \cup {<<".", "p", "p", "m">>, <<".", "g", "i", "f">>, <<>>}

WiPaths ==
    {<<"o">> \o e : e \in Extensions}
      \cup { <<"d", "/", "o", ".", "p", "n", "g">>, <<"d", ".", "x", "/", "o">>,
             <<"d", "/", ".", "p", "n", "g">> }

CodecOutputs == {"valid", "corrupt", "empty", "absent"}

InitWriteImage ==
    /\ op = "write_image" /\ pc = "wi_makedirs"
    /\ InitCommon /\ InitDllIdle /\ InitUzIdle
    /\ path \in WiPaths
    /\ codec_output \in CodecOutputs
    /\ imwrite_calls = 0
    /\ dirs = {}
    /\ files = EmptyFS

Exit(s) == /\ exit_status' = <<s>> /\ pc' = "exited"

\* lines 42-44
WiMakedirs ==
    /\ pc = "wi_makedirs"
    /\ LET dir == Dirname(path)
       IN IF dir # <<>>
          THEN dirs' = Makedirs(dirs, dir) /\ made' = Append(made, dir)
          ELSE UNCHANGED <<dirs, made>>
    /\ pc' = "wi_extension"
    /\ UNCHANGED <<op, files, stdout, log, returned, exc, exit_status,
                   dlVars, uzVars, wiVars>>

\* lines 46-48
WiExtension ==
    /\ pc = "wi_extension"
    /\ IF Splitext(path) \notin cv2_supported_extension
       THEN /\ log' = Append(log, <<"error", "invalid extension format">>)
            /\ Exit(1)
       ELSE /\ pc' = "wi_imwrite"
            /\ UNCHANGED <<log, exit_status>>
    /\ UNCHANGED <<op, dirs, files, stdout, made, returned, exc,
                   dlVars, uzVars, wiVars>>

\* line 50
WiImwrite ==
    /\ pc = "wi_imwrite"
    /\ imwrite_calls' = imwrite_calls + 1
    /\ files' = CASE codec_output = "valid" -> WriteFile(files, path, ValidImage)
                  [] codec_output = "corrupt" -> WriteFile(files, path, CorruptImage)
                  [] codec_output = "empty" -> WriteFile(files, path, <<>>)
                  [] OTHER -> files
    /\ pc' = "wi_validity"
    /\ UNCHANGED <<op, dirs, stdout, log, made, returned, exc, exit_status,
                   dlVars, uzVars, path, codec_output>>

\* lines 52-55
WiValidity ==
    /\ pc = "wi_validity"
    /\ IF ~check_image_file_validity(files, path)
       THEN /\ log' = Append(log, <<"error", "not a valid image file">>)
            /\ Exit(1)
            /\ returned' = returned
       ELSE /\ returned' = <<"None">>
            /\ pc' = "done"
            /\ UNCHANGED <<log, exit_status>>
    /\ UNCHANGED <<op, dirs, files, stdout, made, exc,
                   dlVars, uzVars, wiVars>>

----------------------------------------------------------------------------
(* Specification *)

Init == InitDll \/ InitUnzip \/ InitWriteImage

Next ==
    \/ DllStart \/ DllMakedirs \/ DllOpen \/ DllHeader \/ DllContent
    \/ DllIter \/ DllClear \/ DllInfo \/ DllReturn
    \/ UzStart \/ UzOpen \/ UzProgress \/ UzExtract \/ UzAdd \/ UzClear
    \/ WiMakedirs \/ WiExtension \/ WiImwrite \/ WiValidity

Spec == Init /\ [][Next]_vars

----------------------------------------------------------------------------
(* Properties *)

IsDll == op = "dll_file"
IsUnzip == op = "unzip"
IsWriteImage == op = "write_image"

\* the number of '=' of a printed line
DoneOf(line) == Cardinality({i \in 1..Len(line) : line[i] = "="})

IsBar(line) == line # <<>> /\ line[1] = "["

\* where unzip puts the j-th entry
Target(j) == Join(extract_path, zf[j].filename)

\* C1: when dll_file returns, the file at file_path holds exactly the chunks
\* of the body joined in order, nothing of its earlier content, and the value
\* returned is file_path.
C1_FileIsBody ==
    (IsDll /\ pc = "done") =>
        /\ file_path \in DOMAIN files
        /\ files[file_path] = Concat(url.chunks)
        /\ returned = <<file_path>>

C1_Witness ==
    /\ IsDll /\ pc = "done"
    /\ total_length # NoHeader
    /\ Len(url.chunks) = 2 /\ url.chunks[1] # url.chunks[2]
    /\ files[file_path] = url.chunks[1] \o url.chunks[2]

\* C2: with a content-length T, dl never exceeds T and the progress values
\* printed are non-decreasing and at most 50 (100%).
C2_ProgressBounded ==
    (IsDll /\ total_length # NoHeader) =>
        /\ dl <= total_length
        /\ \A i \in 1..Len(stdout) : IsBar(stdout[i]) => DoneOf(stdout[i]) <= BarWidth
        /\ \A i, j \in 1..Len(stdout) :
              (i <= j /\ IsBar(stdout[i]) /\ IsBar(stdout[j]))
                  => DoneOf(stdout[i]) <= DoneOf(stdout[j])

\* C3: when the source is unreachable or answers a non-success status,
\* dll_file ends with an error: it never returns, never logs the url as
\* downloaded and never writes the answer's body to file_path.
C3_FailureSurfaced ==
    (IsDll /\ (~url.reach \/ ~Success(url.status))) =>
        /\ pc # "done"
        /\ returned = <<>>
        /\ \A i \in 1..Len(log) : log[i] # <<"info", "Downloaded">>
        /\ it = 0

\* C4: for every well-formed archive whose extraction does not fail, unzip
\* ends without error and leaves exactly one file per entry, at the entry's
\* path and with the entry's data.
C4_UnzipExtractsAll ==
    (IsUnzip /\ fail_at = 0) =>
        /\ pc # "raised"
        /\ pc = "done" =>
              /\ DOMAIN files = {Target(j) : j \in 1..Len(zf)}
              /\ \A j \in 1..Len(zf) : files[Target(j)] = zf[j].data

\* C5: on an archive without entries unzip never raises and never evaluates
\* the progress division; when it ends extract_path exists, holds no file and
\* the last line printed is the clearing line.
C5_EmptyArchive ==
    (IsUnzip /\ zf = <<>>) =>
        /\ pc \notin {"raised", "uz_extract", "uz_add"}
        /\ exc = ""
        /\ \A i \in 1..Len(stdout) : ~IsBar(stdout[i])
        /\ pc = "done" =>
              /\ extract_path \in dirs
              /\ DOMAIN files = {}
              /\ stdout = <<ClearLine>>

C5_Witness ==
    /\ IsUnzip /\ zf = <<>> /\ pc = "done"
    /\ made = <<extract_path>>

\* C6: when the extraction of entry k fails, unzip ends with the error, the
\* entries before k are extracted, none after k is, the loop never goes past
\* k, and extracted_size is the sum of the sizes of the entries before k.
C6_ExtractFailure ==
    (IsUnzip /\ fail_at # 0) =>
        /\ idx <= fail_at
        /\ \A j \in (fail_at + 1)..Len(zf) : Target(j) \notin DOMAIN files
        /\ pc # "done"
        /\ exc = "OSError" =>
              /\ pc = "raised"
              /\ returned = <<>>
              /\ idx = fail_at
              /\ extracted_size = SumSizes(SubSeq(zf, 1, fail_at - 1))
              /\ \A j \in 1..(fail_at - 1) :
                    Target(j) \in DOMAIN files /\ files[Target(j)] = zf[j].data

C6_Witness ==
    /\ IsUnzip /\ exc = "OSError"
    /\ fail_at = 2 /\ Len(zf) = 3
    /\ zf[1].file_size > 0
    /\ Target(1) \in DOMAIN files

\* C7: every line printed is the clearing line or a bar of 52 characters,
\* '[' then done '=' then 50 - done spaces then ']' with 0 <= done <= 50, and
\* a call that printed and returned printed the clearing line last.
C7_BarFormat ==
    /\ \A i \in 1..Len(stdout) :
          \/ stdout[i] = ClearLine
          \/ /\ Len(stdout[i]) = BarWidth + 2
             /\ \E done \in 0..BarWidth :
                   stdout[i] = <<"[">> \o [k \in 1..done |-> "="]
                                 \o [k \in 1..(BarWidth - done) |-> " "] \o <<"]">>
    /\ (pc = "done" /\ stdout # <<>>) => stdout[Len(stdout)] = ClearLine

\* the extensions the codec writes, as the documentation of
\* cv2_supported_extension lists them
CodecExtensions ==
    { <<".", "b", "m", "p">>, <<".", "d", "i", "b">>, <<".", "j", "p", "e", "g">>,
      <<".", "j", "p", "g">>, <<".", "j", "p", "e">>, <<".", "j", "p", "2">>,
      <<".", "p", "n", "g">>, <<".", "p", "b", "m">>, <<".", "p", "g", "m">>,
      <<".", "p", "p", "m">>, <<".", "s", "r">>, <<".", "r", "a", "s">>,
      <<".", "t", "i", "f", "f">>, <<".", "t", "i", "f">> }

\* C8: write_image exits with a non-zero status, without calling the codec,
\* when the extension of path is not one the codec supports, exits with a
\* non-zero status when the file written is not a valid image, and returns
\* for every path of a supported extension whose written file is valid.
C8_WriteImageExits ==
    (IsWriteImage /\ pc \in {"done", "exited"}) =>
        /\ Splitext(path) \notin CodecExtensions =>
              pc = "exited" /\ exit_status # <<0>> /\ imwrite_calls = 0
        /\ (Splitext(path) \in CodecExtensions /\ codec_output # "valid") =>
              pc = "exited" /\ exit_status # <<0>>
        /\ (Splitext(path) \in CodecExtensions /\ codec_output = "valid") =>
              pc = "done"

\* C9: in dll_file the parent directory of file_path is created before the
\* file is opened: at the open and whenever the file is open or written the
\* directory exists, and no creation is attempted for an empty directory part.
C9_MakedirsBeforeOpen ==
    IsDll =>
        LET dir == Dirname(file_path)
        IN /\ (dir # <<>> /\ (pc = "dl_open" \/ f \/ file_path \in DOMAIN files)) =>
                 dir \in dirs
           /\ (dir # <<>> /\ (pc = "dl_open" \/ f)) => made = <<dir>>
           /\ dir = <<>> => made = <<>>
           /\ exc # "FileNotFoundError"

C9_Witness ==
    /\ IsDll /\ f /\ it > 0
    /\ Dirname(file_path) # <<>>
    /\ Dirname(Dirname(file_path)) # <<>>
    /\ made = <<Dirname(file_path)>>

\* C10: unzip handles the entries in archive order, each one by progress,
\* then extract, then add; the progress of entry i is computed from the sizes
\* of entries 1..i-1, extracted_size never exceeds uncompress_size and equals
\* it when the loop has ended.
C10_UnzipOrder ==
    (IsUnzip /\ pc \in {"uz_loop", "uz_extract", "uz_add", "done"}) =>
        LET printedBars == IF pc \in {"uz_extract", "uz_add"} THEN idx ELSE idx - 1
            extracted == IF pc = "uz_add" THEN idx ELSE idx - 1
        IN /\ extracted_size <= uncompress_size
           /\ extracted_size = SumSizes(SubSeq(zf, 1, idx - 1))
           /\ Len(stdout) = printedBars + (IF pc = "done" THEN 1 ELSE 0)
           /\ \A i \in 1..printedBars :
                 stdout[i] = Bar(Done(SumSizes(SubSeq(zf, 1, i - 1)), uncompress_size))
           /\ DOMAIN files \ {Target(j) : j \in {fail_at} \ {0}}
                 = {Target(j) : j \in 1..extracted} \ {Target(j) : j \in {fail_at} \ {0}}
           /\ pc = "done" => extracted_size = uncompress_size /\ idx = Len(zf) + 1

C10_Witness ==
    /\ IsUnzip /\ pc = "done"
    /\ Len(zf) = 3 /\ zf[1].file_size = 1 /\ zf[2].file_size = 2
    /\ Len(stdout) = 4
    /\ DoneOf(stdout[1]) = 0 /\ DoneOf(stdout[2]) > 0 /\ DoneOf(stdout[3]) > DoneOf(stdout[2])

====
